---- MODULE Spec2Model ----
(***************************************************************************)
(* Verification model of the bvp-model scoring and projection engine.      *)
(*                                                                         *)
(* JavaScript numbers are modelled as tagged values                        *)
(*     [t |-> "fin", n |-> numerator, d |-> denominator]                   *)
(* (an exact rational in lowest terms, d > 0) or one of the non-finite     *)
(* values null / NaN / +Infinity / -Infinity.  Arithmetic on finite values *)
(* is exact rational arithmetic; IEEE-754 rounding error (about 1e-16) is  *)
(* abstracted away.  Math.sqrt, which is irrational in general, is taken   *)
(* to two decimals (see MathSqrt).                                         *)
(***************************************************************************)
EXTENDS Integers, Sequences, FiniteSets, TLC

\* ------------------------------------------------------------------------
\* Numbers
\* ------------------------------------------------------------------------
AbsInt(x) == IF x < 0 THEN -x ELSE x

RECURSIVE GCD(_, _)
GCD(a, b) == IF b = 0 THEN a ELSE GCD(b, a % b)

\* The rational n/d in lowest terms with a positive denominator.
R(n, d) ==
  LET s == IF d < 0 THEN -1 ELSE 1
      g == GCD(AbsInt(n), AbsInt(d))
  IN [t |-> "fin", n |-> (s * n) \div g, d |-> (s * d) \div g]

Num(n) == [t |-> "fin", n |-> n, d |-> 1]
Null == [t |-> "null", n |-> 0, d |-> 1]
NaN == [t |-> "nan", n |-> 0, d |-> 1]
PosInf == [t |-> "pinf", n |-> 0, d |-> 1]
NegInf == [t |-> "ninf", n |-> 0, d |-> 1]

Zero == Num(0)
One == Num(1)
Half == R(1, 2)

\* Number.isFinite(v): false for null/undefined, NaN and the infinities.
IsFinite(v) == v.t = "fin"

\* Exact arithmetic on finite values.  Sums go through the least common
\* denominator and products cancel crosswise first, so that intermediate
\* integers stay as small as the result allows.
RAdd(a, b) ==
  LET g == GCD(a.d, b.d)
      l == (a.d \div g) * b.d
  IN R(a.n * (l \div a.d) + b.n * (l \div b.d), l)
RNeg(a) == [t |-> "fin", n |-> -a.n, d |-> a.d]
RSub(a, b) == RAdd(a, RNeg(b))
RMul(a, b) ==
  LET g1 == GCD(AbsInt(a.n), b.d)
      g2 == GCD(AbsInt(b.n), a.d)
  IN R((a.n \div g1) * (b.n \div g2), (a.d \div g2) * (b.d \div g1))
RDiv(a, b) == RMul(a, R(b.d, b.n))
RLt(a, b) ==
  LET g == GCD(a.d, b.d)
  IN a.n * (b.d \div g) < b.n * (a.d \div g)
RLe(a, b) == ~RLt(b, a)
RMin(a, b) == IF RLt(b, a) THEN b ELSE a
RMax(a, b) == IF RLt(a, b) THEN b ELSE a

\* Math.floor and Math.round (round half up) of a finite value, as integers.
FloorInt(a) == a.n \div a.d
RoundInt(a) == (a.n \div a.d) + (IF 2 * (a.n % a.d) >= a.d THEN 1 ELSE 0)

\* Math.sqrt on [0,1], to two decimals (rounded down); exact whenever the
\* root is a multiple of 0.01.
MathSqrt(x) ==
  LET v == (x.n * 10000) \div x.d
      k == CHOOSE j \in 0..100 : j * j <= v /\ (j + 1) * (j + 1) > v
  IN R(k, 100)

\* src: function clamp(n, lo, hi) { return Math.min(hi, Math.max(lo, n)); }
\* Math.max/Math.min return NaN when an argument is NaN; null coerces to 0.
clamp(v, lo, hi) ==
  CASE v.t = "fin" -> RMin(hi, RMax(lo, v))
    [] v.t = "null" -> RMin(hi, RMax(lo, Zero))
    [] v.t = "nan" -> NaN
    [] v.t = "pinf" -> hi
    [] v.t = "ninf" -> lo

\* (v - a) / b for finite a and finite b > 0, v any JavaScript number.
JsSubDiv(v, a, b) ==
  CASE v.t = "fin" -> RDiv(RSub(v, a), b)
    [] v.t = "null" -> RDiv(RSub(Zero, a), b)
    [] OTHER -> v

\* v * w for a finite w >= 0: NaN stays NaN (also NaN * 0).
JsMul(v, w) ==
  CASE v.t = "fin" -> RMul(v, w)
    [] v.t = "null" -> Zero
    [] v.t = "nan" -> NaN
    [] OTHER -> IF w.n = 0 THEN NaN ELSE v

\* The reduce((a, b) => a + (Number.isFinite(b) ? b : 0), 0) of the scorer.
RECURSIVE SumFinite(_)
SumFinite(s) ==
  IF s = <<>> THEN Zero
  ELSE RAdd(IF IsFinite(Head(s)) THEN Head(s) ELSE Zero, SumFinite(Tail(s)))

\* ------------------------------------------------------------------------
\* Scoring helpers
\* ------------------------------------------------------------------------
OPS_BASELINE == R(72, 100)

normOPS(ops) ==
  IF ops.t = "null" THEN Half
  ELSE clamp(JsSubDiv(ops, R(40, 100), RSub(R(1050, 1000), R(40, 100))), Zero, One)

normH9(h9) ==
  IF ~IsFinite(h9) THEN Half
  ELSE clamp(RDiv(RSub(h9, Num(6)), RSub(Num(12), Num(6))), Zero, One)

normPA(pa) ==
  IF ~IsFinite(pa) THEN Half
  ELSE clamp(RDiv(RSub(pa, R(38, 10)), RSub(R(48, 10), R(38, 10))), Zero, One)

WTB_PA_MIN == 150
WTB_PA_MAX == 500
WTB_PA_FLOOR == R(65, 100)

\* Variant: the ramp is linear, without the square-root ease.
wtbPAConfidenceLinear(pa) ==
  IF ~IsFinite(pa) THEN WTB_PA_FLOOR
  ELSE RAdd(WTB_PA_FLOOR,
            RMul(RSub(One, WTB_PA_FLOOR),
                 clamp(RDiv(RSub(pa, Num(WTB_PA_MIN)), Num(WTB_PA_MAX - WTB_PA_MIN)),
                       Zero, One)))

wtbPAConfidence(pa) ==
  IF ~IsFinite(pa) THEN WTB_PA_FLOOR
  ELSE LET x == clamp(RDiv(RSub(pa, Num(WTB_PA_MIN)), Num(WTB_PA_MAX - WTB_PA_MIN)),
                      Zero, One)
           eased == MathSqrt(x)
       IN RAdd(WTB_PA_FLOOR, RMul(RSub(One, WTB_PA_FLOOR), eased))

\* Variant: one linear segment from floor to elite, the baseline ignored.
normWTBOneSegment(w) ==
  IF ~IsFinite(w) THEN Half
  ELSE clamp(RDiv(RSub(w, R(190, 1000)), RSub(R(272, 1000), R(190, 1000))), Zero, One)

normWTB(w) ==
  IF ~IsFinite(w) THEN Half
  ELSE LET floor == R(190, 1000)
           base == R(223, 1000)
           elite == R(272, 1000)
       IN IF RLe(w, floor) THEN Zero
          ELSE IF RLe(elite, w) THEN One
          ELSE IF w = base THEN Half
          ELSE IF RLt(base, w)
               THEN RAdd(Half, RMul(Half, RDiv(RSub(w, base), RSub(elite, base))))
               ELSE RMul(Half, RDiv(RSub(w, floor), RSub(base, floor)))

\* ------------------------------------------------------------------------
\* Head-to-head calibration grid
\* ------------------------------------------------------------------------
\* OPS bin edges in thousandths: 0.2, 0.4, ... 2.0.
H2H_OPS_BINS == << 200, 400, 600, 700, 800, 850, 900, 950, 1000, 1200, 1400, 2000 >>

H2H_GRID_POINTS ==
  << <<14, 14, 14, 14, 14, 16, 16, 16, 16, 17, 17, 19>>,
     <<10, 11, 13, 13, 14, 16, 16, 17, 17, 18, 24, 29>>,
     <<10, 11, 12, 12, 14, 16, 19, 19, 19, 20, 24, 29>>,
     <<6, 7, 11, 11, 14, 17, 20, 19, 20, 22, 28, 30>>,
     <<5, 7, 10, 11, 14, 17, 20, 20, 23, 25, 28, 30>>,
     <<5, 7, 8, 11, 14, 17, 20, 20, 24, 26, 29, 30>>,
     <<5, 7, 7, 10, 14, 17, 20, 22, 25, 26, 29, 30>>,
     <<4, 6, 7, 10, 14, 18, 20, 22, 25, 28, 29, 30>>,
     <<4, 6, 7, 10, 14, 18, 20, 22, 25, 28, 29, 30>>,
     <<4, 5, 7, 10, 14, 18, 20, 22, 26, 28, 29, 30>>,
     <<2, 4, 7, 10, 14, 18, 20, 22, 26, 28, 29, 30>>,
     <<2, 4, 7, 8, 14, 19, 20, 22, 28, 28, 29, 30>>,
     <<2, 4, 7, 8, 14, 19, 22, 23, 28, 29, 29, 30>>,
     <<2, 2, 7, 8, 14, 19, 22, 23, 28, 29, 30, 30>>,
     <<2, 2, 6, 8, 14, 19, 22, 23, 28, 29, 30, 30>>,
     <<2, 2, 6, 7, 14, 20, 23, 23, 29, 29, 30, 30>>,
     <<2, 2, 6, 7, 14, 20, 23, 24, 29, 29, 30, 30>>,
     <<2, 2, 5, 7, 14, 20, 23, 24, 29, 30, 30, 30>>,
     <<2, 2, 5, 7, 14, 22, 23, 25, 29, 30, 30, 30>>,
     <<1, 1, 5, 7, 14, 22, 24, 25, 29, 30, 30, 30>>,
     <<1, 1, 4, 6, 14, 22, 24, 26, 30, 30, 30, 30>>,
     <<1, 1, 4, 6, 14, 22, 24, 26, 30, 30, 30, 30>>,
     <<1, 1, 4, 6, 14, 22, 25, 26, 30, 30, 30, 30>>,
     <<1, 1, 4, 6, 14, 22, 25, 28, 30, 30, 30, 30>>,
     <<1, 1, 4, 6, 14, 22, 25, 28, 30, 30, 30, 30>> >>

\* Sequences are 1-based: bin index k here is the source's k + 1 and the row
\* index here is the source's r0 + 1 (= abClamped).
Bin(k) == R(H2H_OPS_BINS[k], 1000)

MinInt(a, b) == IF a < b THEN a ELSE b
MaxInt(a, b) == IF a < b THEN b ELSE a

\* abClamped = clamp(Math.round(ab), 1, 25), after the non-finite default 0.
GridRow(ab) ==
  MinInt(25, MaxInt(1, RoundInt(IF IsFinite(ab) THEN ab ELSE Zero)))

\* Variant: a missing or non-finite OPS counts as 0.
OpsClampedFromZero(ops) ==
  clamp(IF IsFinite(ops) THEN ops ELSE Zero, Bin(1), Bin(Len(H2H_OPS_BINS)))

\* opsClamped, after the non-finite default OPS_BASELINE.
OpsClamped(ops) ==
  clamp(IF IsFinite(ops) THEN ops ELSE OPS_BASELINE, Bin(1), Bin(Len(H2H_OPS_BINS)))

LowestOr(S, dflt) == IF S = {} THEN dflt ELSE CHOOSE k \in S : \A j \in S : k <= j

\* The bin search: the first k with BINS[k] <= opsClamped <= BINS[k+1],
\* else the initial i.
BinIndex(opsClamped) ==
  LowestOr({k \in 1..(Len(H2H_OPS_BINS) - 1) :
              RLe(Bin(k), opsClamped) /\ RLe(opsClamped, Bin(k + 1))}, 1)

\* v0 = row0[i] + u * (row0[i+1] - row0[i]); the AB direction is not
\* interpolated (r1 = r0, t = 0), so points = v0.
GridPoints(row0, i, opsClamped) ==
  LET lo == Bin(i)
      hi == Bin(MinInt(i + 1, Len(H2H_OPS_BINS)))
      u == IF RLt(lo, hi) THEN RDiv(RSub(opsClamped, lo), RSub(hi, lo)) ELSE Zero
  IN RAdd(Num(row0[i]), RMul(u, Num(row0[MinInt(i + 1, Len(row0))] - row0[i])))

GridLookup(r0, opsClamped) ==
  GridPoints(H2H_GRID_POINTS[r0], BinIndex(opsClamped), opsClamped)

\* Variant: the share is returned in points, clamped to [0, 30].
h2hWeightInPoints(ab, ops) ==
  clamp(GridLookup(GridRow(ab), OpsClamped(ops)), Zero, Num(30))

h2hWeightFromGrid(ab, ops) ==
  clamp(RDiv(GridLookup(GridRow(ab), OpsClamped(ops)), Num(100)), Zero, R(30, 100))

\* SCORE_WEIGHTS in hundredths; Weight(k) is the weight itself.
SCORE_WEIGHTS ==
  [wtb |-> 30, h9_side |-> 4, h9_28 |-> 2, ops_hand |-> 15, ops_site |-> 4,
   last7 |-> 10, opp |-> 5, h2h |-> 15]

Weight(k) == R(SCORE_WEIGHTS[k], 100)

\* ------------------------------------------------------------------------
\* Composite scorer (the body of the vsRows.map callback of analyzeProbable)
\* ------------------------------------------------------------------------
\* A projected slot is a positive integer or null; battingOrderSlot never
\* yields 0 (Math.floor(n / 100) || null), so 0 stands for null.
NoSlot == 0

PROJECTED_PA_TABLE ==
  [home |-> << R(449, 100), R(440, 100), R(430, 100), R(420, 100), R(410, 100) >>,
   away |-> << R(469, 100), R(459, 100), R(449, 100), R(439, 100), R(428, 100) >>]

projectedPAFor(slot, isHome) ==
  IF slot = NoSlot THEN Null
  ELSE LET site == IF isHome THEN "home" ELSE "away"
       IN IF slot \in DOMAIN PROJECTED_PA_TABLE[site]
          THEN PROJECTED_PA_TABLE[site][slot]
          ELSE Null

\* Variant: a linear ramp, without the square root.
Last7DynWeightLinear(paLast7, opsLast7) ==
  IF IsFinite(paLast7) /\ RLe(Num(3), paLast7) /\ IsFinite(opsLast7)
  THEN RMul(Weight("last7"),
            RAdd(Half, RMul(Half, clamp(RDiv(RSub(paLast7, Num(3)), Num(20 - 3)),
                                        Zero, One))))
  ELSE RMul(Weight("last7"), Half)

\* w_last7_dyn: paLast7 is a finite number or null (getRangeOPS).
Last7DynWeight(paLast7, opsLast7) ==
  IF IsFinite(paLast7) /\ RLe(Num(3), paLast7) /\ IsFinite(opsLast7)
  THEN RMul(Weight("last7"),
            RAdd(Half, RMul(Half, MathSqrt(clamp(RDiv(RSub(paLast7, Num(3)), Num(20 - 3)),
                                                 Zero, One)))))
  ELSE RMul(Weight("last7"), Half)

\* scaleShrink = shrinkSum > 0 ? Math.max(0, remaining) / shrinkSum : 1
ScaleOf(remaining, shrinkSum) ==
  IF RLt(Zero, shrinkSum) THEN RDiv(RMax(Zero, remaining), shrinkSum) ELSE One

ScaleShrink(w_h2h_dyn, w_last7_dyn) ==
  ScaleOf(RSub(One, RAdd(RAdd(Weight("wtb"), Weight("opp")), w_h2h_dyn)),
          SumFinite(<< Weight("h9_side"), Weight("h9_28"), Weight("ops_hand"),
                       Weight("ops_site"), w_last7_dyn >>))

\* Variant: last7 is rescaled like the other four, without the cap.
UncappedLast7(w_last7_dyn, scaleShrink) == RMul(w_last7_dyn, scaleShrink)

\* Variant: Math.max in place of Math.min.
RaisedLast7(w_last7_dyn, scaleShrink) ==
  RMax(RMul(w_last7_dyn, scaleShrink), Weight("last7"))

\* w.last7: capped so it never exceeds its base weight.
CappedLast7(w_last7_dyn, scaleShrink) ==
  RMin(RMul(w_last7_dyn, scaleShrink), Weight("last7"))

\* Variant: wtb and opp are rescaled with the others.
ScaledWeightsAll(w_h2h_dyn, w_last7_dyn, scaleShrink) ==
  [wtb |-> RMul(Weight("wtb"), scaleShrink),
   opp |-> RMul(Weight("opp"), scaleShrink),
   h2h |-> w_h2h_dyn,
   h9_side |-> RMul(Weight("h9_side"), scaleShrink),
   h9_28 |-> RMul(Weight("h9_28"), scaleShrink),
   ops_hand |-> RMul(Weight("ops_hand"), scaleShrink),
   ops_site |-> RMul(Weight("ops_site"), scaleShrink),
   last7 |-> CappedLast7(w_last7_dyn, scaleShrink)]

\* The resolved weight table w.
ScaledWeights(w_h2h_dyn, w_last7_dyn, scaleShrink) ==
  [wtb |-> Weight("wtb"),
   opp |-> Weight("opp"),
   h2h |-> w_h2h_dyn,
   h9_side |-> RMul(Weight("h9_side"), scaleShrink),
   h9_28 |-> RMul(Weight("h9_28"), scaleShrink),
   ops_hand |-> RMul(Weight("ops_hand"), scaleShrink),
   ops_site |-> RMul(Weight("ops_site"), scaleShrink),
   last7 |-> CappedLast7(w_last7_dyn, scaleShrink)]

ResolveWeights(w_h2h_dyn, w_last7_dyn) ==
  ScaledWeights(w_h2h_dyn, w_last7_dyn, ScaleShrink(w_h2h_dyn, w_last7_dyn))

\* oppNorm and oppShare: half of the opp weight at 4.10 projected PA, all of
\* it at 4.69, the neutral 0.5 fraction without a projected PA.
\* Variant: a missing projected PA counts as the low end.
OppNormAbsentLow(projPA) ==
  IF projPA.t = "null" THEN Zero
  ELSE clamp(RDiv(RSub(projPA, R(410, 100)), RSub(R(469, 100), R(410, 100))), Zero, One)

OppNorm(projPA) ==
  IF projPA.t = "null" THEN Half
  ELSE clamp(RDiv(RSub(projPA, R(410, 100)), RSub(R(469, 100), R(410, 100))), Zero, One)

OppShare(wOpp, projPA) == RMul(wOpp, RAdd(Half, RMul(Half, OppNorm(projPA))))

\* The keys of comp in insertion order (Object.entries order).
CompKeys ==
  << "wtb", "h9_side", "h9_28", "ops_hand", "ops_site", "last7", "opp", "h2h" >>
OtherKeys ==
  << "wtb", "h9_side", "h9_28", "ops_hand", "ops_site", "last7", "opp" >>

Contributions(b, w) ==
  [wtb |-> RMul(JsMul(normWTB(b.wtb), w.wtb), wtbPAConfidence(b.season_pa)),
   h9_side |-> JsMul(normH9(b.pitcherH9VsBatterSide), w.h9_side),
   h9_28 |-> JsMul(normH9(b.hitsPer9Inn_last_28_days), w.h9_28),
   ops_hand |-> JsMul(normOPS(b.opsVsPitcherHand), w.ops_hand),
   ops_site |-> JsMul(normOPS(b.opsHomeAwayForGame), w.ops_site),
   last7 |-> JsMul(normOPS(b.opsLast7), w.last7),
   opp |-> OppShare(w.opp, projectedPAFor(b.projectedOrder, b.opponentIsHome)),
   h2h |-> w.h2h]

ScoreRaw(comp) == SumFinite([i \in 1..Len(CompKeys) |-> comp[CompKeys[i]]])

\* Variant: Math.floor in place of Math.round.
ScaledScoreFloor(scoreRaw) ==
  MaxInt(1, FloorInt(RMul(clamp(scoreRaw, Zero, One), Num(100))))

ScaledScore(scoreRaw) ==
  MaxInt(1, RoundInt(RMul(clamp(scoreRaw, Zero, One), Num(100))))

\* Index (1-based) of the first largest element: the head of the stable
\* descending sort of the {i, v} pairs.
FirstMaxIdx(vs) ==
  CHOOSE i \in 1..Len(vs) :
    /\ \A j \in 1..Len(vs) : RLe(vs[j], vs[i])
    /\ \A j \in 1..(i - 1) : RLt(vs[j], vs[i])

RECURSIVE SumInts(_)
SumInts(s) == IF s = <<>> THEN 0 ELSE Head(s) + SumInts(Tail(s))

\* Variant: Math.floor in place of Math.round for each share.
ScaledOthersFloor(vs, denomOthers, remainingPts) ==
  [i \in 1..Len(vs) |->
     MaxInt(0, FloorInt(RMul(Num(remainingPts),
                             RDiv(IF IsFinite(vs[i]) THEN vs[i] ELSE Zero,
                                  denomOthers))))]

\* scaledOthers: each other contribution's share of remainingPts, rounded.
ScaledOthers(vs, denomOthers, remainingPts) ==
  [i \in 1..Len(vs) |->
     MaxInt(0, RoundInt(RMul(Num(remainingPts),
                             RDiv(IF IsFinite(vs[i]) THEN vs[i] ELSE Zero,
                                  denomOthers))))]

\* Variant: the delta is applied with the wrong sign.
ApplyDeltaFlipped(scaledOthers, maxIdx, delta) ==
  [scaledOthers EXCEPT ![maxIdx] = MaxInt(0, scaledOthers[maxIdx] - delta)]

ApplyDelta(scaledOthers, maxIdx, delta) ==
  [scaledOthers EXCEPT ![maxIdx] = MaxInt(0, scaledOthers[maxIdx] + delta)]

\* The rounding delta goes to the largest raw contribution.
FixDelta(scaledOthers, vs, remainingPts) ==
  IF remainingPts - SumInts(scaledOthers) # 0 /\ Len(scaledOthers) > 0
  THEN ApplyDelta(scaledOthers,
                  FirstMaxIdx([i \in 1..Len(vs) |->
                                 IF IsFinite(vs[i]) THEN vs[i] ELSE Num(-1)]),
                  remainingPts - SumInts(scaledOthers))
  ELSE scaledOthers

\* Variant: the nominal h2h weight of SCORE_WEIGHTS in place of comp.h2h.
AbsH2HNominal(comp) == RoundInt(RMul(Weight("h2h"), Num(100)))

AbsH2H(comp) ==
  IF IsFinite(comp.h2h) THEN RoundInt(RMul(comp.h2h, Num(100))) ELSE 0

KeyIndex(k) == CHOOSE i \in 1..Len(OtherKeys) : OtherKeys[i] = k

\* Object.fromEntries([...scaledOthers, ['h2h', absH2H]])
BreakdownOf(fixed, absH2H) ==
  [k \in {CompKeys[i] : i \in 1..Len(CompKeys)} |->
     IF k = "h2h" THEN absH2H ELSE fixed[KeyIndex(k)]]

Reconcile(vs, denomOthers, remainingPts, absH2H, scaledScore) ==
  IF RLt(Zero, denomOthers)
  THEN BreakdownOf(FixDelta(ScaledOthers(vs, denomOthers, remainingPts), vs, remainingPts),
                   absH2H)
  ELSE [k \in {"h2h"} |-> scaledScore]

Others(comp) == [i \in 1..Len(OtherKeys) |-> comp[OtherKeys[i]]]

\* score_breakdown as a function from signal name to points.
ScoreBreakdown(comp, scaledScore) ==
  Reconcile(Others(comp), SumFinite(Others(comp)),
            MaxInt(0, scaledScore - AbsH2H(comp)), AbsH2H(comp), scaledScore)

\* The row returned by the map callback (the fields the claims observe),
\* with the weight table and the contributions it was computed from.
RowOf(b, w, comp, scaledScore) ==
  [w |-> w,
   comp |-> comp,
   score |-> scaledScore,
   h2h_share |-> w.h2h,
   score_breakdown |-> ScoreBreakdown(comp, scaledScore),
   projectedBattingOrder |-> b.projectedOrder,
   ab |-> b.ab_vs_pitcher,
   season_pa |-> b.season_pa,
   present |-> TRUE]

ScoreWith(b, w, comp) == RowOf(b, w, comp, ScaledScore(ScoreRaw(comp)))

ScoreUnder(b, w) == ScoreWith(b, w, Contributions(b, w))

\* abH2H = r.ab_vs_pitcher ?? 0
ScoreHitter(b) ==
  ScoreUnder(b, ResolveWeights(
                  h2hWeightFromGrid(IF b.ab_vs_pitcher.t = "null" THEN Zero
                                    ELSE b.ab_vs_pitcher,
                                    b.ops_vs_pitcher),
                  Last7DynWeight(b.paLast7, b.opsLast7)))

\* ------------------------------------------------------------------------
\* Lineup-slot projector
\* ------------------------------------------------------------------------
\* battingOrderSlot(bo): bo is the raw battingOrder after Number(): null for
\* a missing or empty code, NaN for a non-numeric one.
battingOrderSlot(bo) ==
  IF bo.t = "null" THEN NoSlot
  ELSE IF ~IsFinite(bo) THEN NoSlot
  ELSE FloorInt(RDiv(bo, Num(100)))

\* Object.entries(counts) visits integer keys in ascending numeric order,
\* whatever the order they were inserted in: the next key is the lowest left.
\* Variant: descending order.
NextKeyDescending(keys) == CHOOSE k \in keys : \A j \in keys : k >= j

NextKey(keys) == CHOOSE k \in keys : \A j \in keys : k <= j

\* Variant: count >= bestCount, so that a later key of equal count wins.
RECURSIVE ChooseFoldGe(_, _, _, _, _)
ChooseFoldGe(counts, keys, latestSlot, bestSlot, bestCount) ==
  IF keys = {} THEN bestSlot
  ELSE IF counts[NextKey(keys)] >= bestCount
       THEN ChooseFoldGe(counts, keys \ {NextKey(keys)}, latestSlot,
                         NextKey(keys), counts[NextKey(keys)])
       ELSE ChooseFoldGe(counts, keys \ {NextKey(keys)}, latestSlot, bestSlot, bestCount)

\* The for loop over the entries not yet visited (keys), with the loop's
\* bestSlot and bestCount.
RECURSIVE ChooseFold(_, _, _, _, _)
ChooseFold(counts, keys, latestSlot, bestSlot, bestCount) ==
  IF keys = {} THEN bestSlot
  ELSE IF counts[NextKey(keys)] > bestCount
       THEN ChooseFold(counts, keys \ {NextKey(keys)}, latestSlot,
                       NextKey(keys), counts[NextKey(keys)])
       ELSE IF counts[NextKey(keys)] = bestCount /\ NextKey(keys) = latestSlot
       THEN ChooseFold(counts, keys \ {NextKey(keys)}, latestSlot,
                       NextKey(keys), bestCount)
       ELSE ChooseFold(counts, keys \ {NextKey(keys)}, latestSlot, bestSlot, bestCount)

\* Variant: the tie-breaker branch is missing.
chooseProjectedOrderNoTieBreak(counts, latestSlot) ==
  ChooseFold(counts, DOMAIN counts, NoSlot, NoSlot, -1)

chooseProjectedOrder(counts, latestSlot) ==
  ChooseFold(counts, DOMAIN counts, latestSlot, NoSlot, -1)

\* Variant: the number of distinct slots in place of the sum of the counts.
CountKeys(counts, keys) == Cardinality(keys)

\* Object.values(orderCounts).reduce((a, b) => a + b, 0)
RECURSIVE SumCounts(_, _)
SumCounts(counts, keys) ==
  IF keys = {} THEN 0
  ELSE LET k == CHOOSE x \in keys : TRUE
       IN counts[k] + SumCounts(counts, keys \ {k})

\* ------------------------------------------------------------------------
\* State
\* ------------------------------------------------------------------------
VARIABLES
  entry,        \* ordersByPlayer.get(pid): NoEntry or {counts, latestSlot, latestGameDate}
  candidate,    \* pid is in candidateBatterIds
  obs,          \* history: the accepted observations, in fold order
  projection,   \* projections.get(pid): NoProjection or {projectedOrder, orderSampleSize}
  bundle,       \* the signal bundle of the hitter being scored
  pc,           \* position of the scorer: "input" or "scored"
  row,          \* the row the scorer returned, with its weights and contributions
  gridAb,       \* at-bats versus the pitcher of the grid lookups
  lookup,       \* the latest h2hWeightFromGrid call: {ops, share}
  prevLookup,   \* the call before it
  normCall,     \* the latest call of the normalizers on one input
  prevCall,     \* the call before it
  run,          \* main and analyzeProbable: position, fetch outcomes, exit
  perProbable,  \* main: the hitters lists analyzeProbable returned
  out,          \* main: the output document {hitterCount, hitters}
  slotCall,     \* a call of battingOrderSlot: {code, slot}
  sigCall,      \* the latest computation of w_last7_dyn or oppShare
  prevSigCall,  \* the computation before it
  dateInput,    \* web UI: value of #dateInput, a day number
  sortSelect,   \* web UI: value of #sortSelect
  sortDirBtn,   \* web UI: dataset.dir of #sortDirBtn
  loads,        \* web UI: the loadData calls, in the order they were made
  cards,        \* web UI: what #cards was last rendered from
  status,       \* web UI: text of #status
  req           \* dev server: the request being handled and its response

foldVars == << entry, candidate, obs, projection >>
scoreVars == << bundle, pc, row >>
gridVars == << gridAb, lookup, prevLookup >>
normVars == << normCall, prevCall >>
runVars == << run >>
outVars == << perProbable, out >>
slotVars == << slotCall >>
sigVars == << sigCall, prevSigCall >>
webVars == << dateInput, sortSelect, sortDirBtn, loads, cards, status >>
srvVars == << req >>
vars == << entry, candidate, obs, projection, bundle, pc, row,
           gridAb, lookup, prevLookup, normCall, prevCall, run, perProbable, out, slotCall,
           sigCall, prevSigCall, dateInput, sortSelect, sortDirBtn, loads,
           cards, status, req >>

\* Game dates are "YYYY-MM-DD" strings compared with >=; day numbers
\* 1..MaxDate keep that order.  NoDate is the initial null.
NoDate == 0
MaxDate == 2
MaxObs == 5

NoEntry == [counts |-> <<>>, latestSlot |-> NoSlot, latestGameDate |-> NoDate,
            present |-> FALSE]
NoProjection == [projectedOrder |-> NoSlot, orderSampleSize |-> 0, present |-> FALSE]
NoBundle == [present |-> FALSE]
NoRow == [present |-> FALSE]

FoldIdle ==
  /\ entry = NoEntry
  /\ candidate = FALSE
  /\ obs = <<>>
  /\ projection = NoProjection

ScoreIdle ==
  /\ bundle = NoBundle
  /\ pc = "idle"
  /\ row = NoRow

NoLookup == [ops |-> Null, share |-> Zero, present |-> FALSE]
NoCall == [present |-> FALSE]

GridIdle ==
  /\ gridAb = Null
  /\ lookup = NoLookup
  /\ prevLookup = NoLookup

NormIdle ==
  /\ normCall = NoCall
  /\ prevCall = NoCall

NoRun == [pc |-> "idle"]
NoOut == [present |-> FALSE]

RunIdle == run = NoRun

OutIdle ==
  /\ perProbable = << >>
  /\ out = NoOut

NoSlotCall == [present |-> FALSE]

SlotIdle == slotCall = NoSlotCall

NoSigCall == [present |-> FALSE]

SigIdle ==
  /\ sigCall = NoSigCall
  /\ prevSigCall = NoSigCall

NoReq == [pc |-> "idle"]

SrvIdle == req = NoReq

NoDay == 0
NoCards == [present |-> FALSE]
NoStatus == [text |-> ""]

WebIdle ==
  /\ dateInput = NoDay
  /\ sortSelect = ""
  /\ sortDirBtn = ""
  /\ loads = << >>
  /\ cards = NoCards
  /\ status = NoStatus

\* ------------------------------------------------------------------------
\* Lineup fold: one boxscore player row of the hitter, then the projection
\* ------------------------------------------------------------------------
\* Raw battingOrder codes of a boxscore row: missing, non-numeric, "000",
\* "050" and codes of slots 1, 2 and 7.
BattingOrderCodes == { Null, NaN, Num(0), Num(50), Num(100), Num(201), Num(700) }
PositionCodes == { "P", "SS" }

\* Variant: gameDate > latestGameDate, so that equal dates keep the first seen.
IsLatestStrict(latestGameDate, gameDate) ==
  latestGameDate = NoDate \/ gameDate > latestGameDate

\* !entry.latestGameDate || gameDate >= entry.latestGameDate
IsLatest(latestGameDate, gameDate) ==
  latestGameDate = NoDate \/ gameDate >= latestGameDate

\* The body of the players loop for one row of the hitter.
RecordObservation(boRaw, posCode, gameDate) ==
  LET bo == battingOrderSlot(boRaw)
  IN /\ projection = NoProjection
     /\ Len(obs) < MaxObs
     /\ IF bo = NoSlot \/ posCode = "P"
        THEN UNCHANGED << entry, candidate, obs >>
        ELSE LET counts1 == IF bo \in DOMAIN entry.counts
                            THEN [entry.counts EXCEPT ![bo] = @ + 1]
                            ELSE entry.counts @@ (bo :> 1)
                 newer == IsLatest(entry.latestGameDate, gameDate)
             IN /\ entry' = [counts |-> counts1,
                             latestSlot |-> IF newer THEN bo ELSE entry.latestSlot,
                             latestGameDate |-> IF newer THEN gameDate
                                                ELSE entry.latestGameDate,
                             present |-> TRUE]
                /\ candidate' = (candidate \/ (bo >= 1 /\ bo <= 5))
                /\ obs' = Append(obs, [slot |-> bo, date |-> gameDate])
     /\ UNCHANGED projection
     /\ UNCHANGED << scoreVars, gridVars, normVars, runVars, outVars, slotVars, sigVars, webVars, srvVars >>

\* The projections loop, for a pid of batterIds.
Project ==
  /\ projection = NoProjection
  /\ candidate
  /\ entry.present
  /\ projection' =
       [projectedOrder |-> chooseProjectedOrder(entry.counts, entry.latestSlot),
        orderSampleSize |-> SumCounts(entry.counts, DOMAIN entry.counts),
        present |-> TRUE]
  /\ UNCHANGED << entry, candidate, obs >>
  /\ UNCHANGED << scoreVars, gridVars, normVars, runVars, outVars, slotVars, sigVars, webVars, srvVars >>

FoldInit ==
  FoldIdle /\ ScoreIdle /\ GridIdle /\ NormIdle /\ RunIdle /\ OutIdle /\ SlotIdle
    /\ SigIdle
    /\ WebIdle
    /\ SrvIdle

FoldNext ==
  \/ \E boRaw \in BattingOrderCodes, posCode \in PositionCodes, gameDate \in 1..MaxDate :
       RecordObservation(boRaw, posCode, gameDate)
  \/ Project

SpecFold == FoldInit /\ [][FoldNext]_vars

\* ------------------------------------------------------------------------
\* Scorer: one hitter's signal bundle is scored
\* ------------------------------------------------------------------------
\* Projected slot and site of the game: no projection, the table's two ends
\* (home slot 5, away slot 1) and a slot the table has no entry for.
SlotSites ==
  { [projectedOrder |-> NoSlot, opponentIsHome |-> TRUE],
    [projectedOrder |-> 1, opponentIsHome |-> FALSE],
    [projectedOrder |-> 5, opponentIsHome |-> TRUE],
    [projectedOrder |-> 7, opponentIsHome |-> FALSE] }

\* Season hit rate and plate appearances: both missing, a rate below the
\* floor, an in-range rate with and without a known sample size.
SeasonInputs ==
  { [wtb |-> Null, season_pa |-> Null],
    [wtb |-> R(150, 1000), season_pa |-> Num(276)],
    [wtb |-> R(2475, 10000), season_pa |-> Num(276)],
    [wtb |-> R(2475, 10000), season_pa |-> Null] }

\* Last-7-day line: missing, too few PA, mid-ramp, full ramp, and a full
\* sample whose OPS string is not a number.
Last7Inputs ==
  { [paLast7 |-> Null, opsLast7 |-> Null],
    [paLast7 |-> Num(2), opsLast7 |-> R(725, 1000)],
    [paLast7 |-> Num(10), opsLast7 |-> R(725, 1000)],
    [paLast7 |-> Num(20), opsLast7 |-> R(725, 1000)],
    [paLast7 |-> Num(20), opsLast7 |-> NaN] }

\* Pitcher hits-per-9 versus the batter's side and over the last 28 days.
H9Inputs ==
  { [pitcherH9VsBatterSide |-> Null, hitsPer9Inn_last_28_days |-> Null],
    [pitcherH9VsBatterSide |-> Null, hitsPer9Inn_last_28_days |-> Num(13)],
    [pitcherH9VsBatterSide |-> R(15, 2), hitsPer9Inn_last_28_days |-> Num(13)] }

\* Head-to-head line and the two OPS splits: missing, non-numeric (Number()
\* of a string such as ".---"), out of range or in range.
SplitInputs ==
  [ab_vs_pitcher : { Null, Num(4) },
   ops_vs_pitcher : { Null, R(90, 100), R(25, 10) },
   opsVsPitcherHand : { Null, NaN, R(920, 1000) },
   opsHomeAwayForGame : { Null, R(530, 1000) },
   present : { TRUE }]

Bundles ==
  { sp @@ se @@ l7 @@ h9 @@ ss :
      sp \in SplitInputs, se \in SeasonInputs, l7 \in Last7Inputs,
      h9 \in H9Inputs, ss \in SlotSites }

Score ==
  /\ pc = "input"
  /\ row' = ScoreHitter(bundle)
  /\ pc' = "scored"
  /\ UNCHANGED bundle
  /\ UNCHANGED << foldVars, gridVars, normVars, runVars, outVars, slotVars, sigVars, webVars, srvVars >>

ScoreInit ==
  /\ SrvIdle
  /\ WebIdle
  /\ SigIdle
  /\ SlotIdle
  /\ RunIdle
  /\ OutIdle
  /\ FoldIdle
  /\ GridIdle
  /\ NormIdle
  /\ bundle \in Bundles
  /\ pc = "input"
  /\ row = NoRow

ScoreNext == Score

SpecScore == ScoreInit /\ [][ScoreNext]_vars

\* ------------------------------------------------------------------------
\* Grid lookups for one at-bats value, and the normalizers on one input
\* ------------------------------------------------------------------------
\* At-bats: missing, non-finite, below, inside and above rows 1..25, and
\* fractional values (Math.round).
GridAbs ==
  { Null, NaN, PosInf, NegInf, Num(-1), Num(30), R(5, 2), R(1, 4) }
    \cup { Num(a) : a \in 0..26 }

\* OPS: missing and non-finite, and 0.10 .. 2.10 in steps of 0.05, which
\* holds every bin edge.
GridOps ==
  { Null, NaN, PosInf, NegInf } \cup { R(5 * k, 100) : k \in 2..42 }

\* Two calls for the same at-bats value are kept, so that they can be compared.
Lookup(ops) ==
  /\ ~prevLookup.present
  /\ lookup' = [ops |-> ops, share |-> h2hWeightFromGrid(gridAb, ops), present |-> TRUE]
  /\ prevLookup' = lookup
  /\ UNCHANGED gridAb
  /\ UNCHANGED << foldVars, scoreVars, normVars, runVars, outVars, slotVars, sigVars, webVars, srvVars >>

GridInit ==
  /\ SrvIdle
  /\ WebIdle
  /\ SigIdle
  /\ SlotIdle
  /\ RunIdle
  /\ OutIdle
  /\ FoldIdle
  /\ ScoreIdle
  /\ NormIdle
  /\ gridAb \in GridAbs
  /\ lookup = NoLookup
  /\ prevLookup = NoLookup

GridNext == \E ops \in GridOps : Lookup(ops)

SpecGrid == GridInit /\ [][GridNext]_vars

\* Normalizer inputs: missing and non-finite values, finite values over the
\* OPS, hit-rate, projected-PA and hits-per-9 bands and beyond them, and
\* season plate appearances 0..600.
NormInputs ==
  { Null, NaN, PosInf, NegInf }
    \cup { R(5 * k, 100) : k \in 0..30 }
    \cup { R(k, 1000) : k \in 180..280 }
    \cup { R(k, 10) : k \in 36..50 }
    \cup { R(k, 2) : k \in 10..26 }
    \cup { Num(25 * k) : k \in 0..24 }

\* The normalizers and wtbPAConfidence are called on v; two calls are kept,
\* so that they can be compared.
Normalize(v) ==
  /\ ~prevCall.present
  /\ normCall' = [input |-> v,
                  ops |-> normOPS(v),
                  h9 |-> normH9(v),
                  pa |-> normPA(v),
                  wtb |-> normWTB(v),
                  conf |-> wtbPAConfidence(v),
                  present |-> TRUE]
  /\ prevCall' = normCall
  /\ UNCHANGED << foldVars, scoreVars, gridVars, runVars, outVars, slotVars, sigVars, webVars, srvVars >>

NormInit ==
  /\ SrvIdle
  /\ WebIdle
  /\ SigIdle
  /\ SlotIdle
  /\ RunIdle
  /\ OutIdle
  /\ FoldIdle
  /\ ScoreIdle
  /\ GridIdle
  /\ NormIdle

NormNext == \E v \in NormInputs : Normalize(v)

SpecNorm == NormInit /\ [][NormNext]_vars


\* ------------------------------------------------------------------------
\* main and the awaited fetches of analyzeProbable
\* ------------------------------------------------------------------------
\* The fetches analyzeProbable awaits, in source order.
FetchSteps ==
  << "pitcherSeason", "pitcherHomeAway", "pitcherLast28", "teamSchedule",
     "boxscore", "homeAwaySplits", "rangeOPS", "seasonStats", "pitcherHand",
     "vsPitcherOPS", "vsHandSplits", "pitcherVsBatterHand", "batSides" >>

\* The fetches awaited inside a try/catch block.
Caught == { "pitcherSeason", "pitcherHomeAway", "pitcherLast28", "boxscore" }

\* The batch fetchers that return without a request when batterIds is empty.
BatchFetches ==
  { "homeAwaySplits", "rangeOPS", "seasonStats", "vsPitcherOPS", "vsHandSplits",
    "batSides" }

MaxProbables == 2
MaxGames == 2

\* The next position after the current fetch of analyzeProbable is over: the
\* next fetch, or back in main's loop once the result was returned.
Advance(r) ==
  IF r.step < Len(FetchSteps)
  THEN [r EXCEPT !.step = r.step + 1]
  ELSE [r EXCEPT !.pc = "loop"]

\* Inside the oppGames loop: the next boxscore, or the end of the loop.
NextGame(r) ==
  IF r.games > 1 THEN [r EXCEPT !.games = r.games - 1]
  ELSE Advance([r EXCEPT !.games = 0])

\* A rejected fetch: caught by the surrounding try/catch (the signal is
\* null, the boxscore is skipped), or thrown out of analyzeProbable and
\* main into main().catch, which exits with code 1.
Rejected(r, name) ==
  IF name \in Caught
  THEN IF name = "boxscore"
       THEN NextGame([r EXCEPT !.failed = @ \cup {name}, !.absent = @ \cup {name}])
       ELSE Advance([r EXCEPT !.failed = @ \cup {name}, !.absent = @ \cup {name}])
  ELSE [r EXCEPT !.failed = @ \cup {name}, !.pc = "exit", !.exitCode = 1]

\* A resolved fetch: the team schedule gives the games of the window (n), a
\* boxscore may add candidate batters (cand).
Resolved(r, name, n, cand) ==
  IF name = "teamSchedule" THEN Advance([r EXCEPT !.games = n])
  ELSE IF name = "boxscore" THEN NextGame([r EXCEPT !.batters = @ \/ cand])
  ELSE Advance(r)

\* main: const sched = await getScheduleByDate(dateStr)
GetSchedule(ok, n) ==
  /\ run.pc = "schedule"
  /\ run' = IF ok THEN [run EXCEPT !.pc = "loop", !.probables = n]
            ELSE [run EXCEPT !.failed = @ \cup {"schedule"}, !.pc = "exit",
                             !.exitCode = 1]
  /\ UNCHANGED << foldVars, scoreVars, gridVars, normVars, outVars, slotVars, sigVars, webVars, srvVars >>

\* main: the next call of analyzeProbable.
NextProbable ==
  /\ run.pc = "loop"
  /\ run.probables > 0
  /\ run' = [run EXCEPT !.pc = "fetch", !.step = 1, !.probables = @ - 1,
                        !.games = 0, !.batters = FALSE]
  /\ UNCHANGED << foldVars, scoreVars, gridVars, normVars, outVars, slotVars, sigVars, webVars, srvVars >>

\* analyzeProbable: the next awaited fetch resolves (ok) or rejects.
Fetch(ok, n, cand) ==
  /\ run.pc = "fetch"
  /\ run' =
       IF FetchSteps[run.step] \in BatchFetches /\ ~run.batters THEN Advance(run)
       ELSE IF FetchSteps[run.step] = "boxscore" /\ run.games = 0 THEN Advance(run)
       ELSE IF ok THEN Resolved(run, FetchSteps[run.step], n, cand)
       ELSE Rejected(run, FetchSteps[run.step])
  /\ UNCHANGED << foldVars, scoreVars, gridVars, normVars, outVars, slotVars, sigVars, webVars, srvVars >>

\* main: after the loop, api/today.json and api/<date>.json are written.
WriteOutput ==
  /\ run.pc = "loop"
  /\ run.probables = 0
  /\ run' = [run EXCEPT !.pc = "done", !.written = TRUE, !.exitCode = 0]
  /\ UNCHANGED << foldVars, scoreVars, gridVars, normVars, outVars, slotVars, sigVars, webVars, srvVars >>

RunInit ==
  /\ SrvIdle
  /\ WebIdle
  /\ SigIdle
  /\ SlotIdle
  /\ FoldIdle
  /\ ScoreIdle
  /\ GridIdle
  /\ NormIdle
  /\ OutIdle
  /\ run = [pc |-> "schedule", step |-> 1, probables |-> 0, games |-> 0,
            batters |-> FALSE, absent |-> {}, failed |-> {}, exitCode |-> -1,
            written |-> FALSE]

RunNext ==
  \/ \E ok \in BOOLEAN, n \in 0..MaxProbables : GetSchedule(ok, n)
  \/ NextProbable
  \/ \E ok \in BOOLEAN, n \in 0..MaxGames, cand \in BOOLEAN : Fetch(ok, n, cand)
  \/ WriteOutput

SpecRun == RunInit /\ [][RunNext]_vars

\* ------------------------------------------------------------------------
\* The hitters lists: analyzeProbable's filter and sort, main's combined list
\* ------------------------------------------------------------------------
\* Rows the map callback returned for a probable pitcher, with the fields the
\* filters and sorts read: at-bats versus the pitcher, projected slot, season
\* plate appearances, score and wtb_percent.  They hold rows that pass every
\* filter (with score and wtb_percent ordered both ways) and rows that fail
\* each one.
HitterRows ==
  { [ab |-> Num(3), slot |-> 2, season_pa |-> Num(300), score |-> 60,
     wtb_percent |-> R(220, 1000)],
    [ab |-> Num(1), slot |-> 5, season_pa |-> Num(85), score |-> 40,
     wtb_percent |-> R(280, 1000)],
    [ab |-> Num(2), slot |-> 4, season_pa |-> Num(300), score |-> 50,
     wtb_percent |-> Null],
    [ab |-> Null, slot |-> 2, season_pa |-> Num(300), score |-> 70,
     wtb_percent |-> R(250, 1000)],
    [ab |-> Num(5), slot |-> NoSlot, season_pa |-> Num(300), score |-> 55,
     wtb_percent |-> R(250, 1000)],
    [ab |-> Num(5), slot |-> 6, season_pa |-> Num(300), score |-> 90,
     wtb_percent |-> R(250, 1000)],
    [ab |-> Num(2), slot |-> 5, season_pa |-> Num(84), score |-> 80,
     wtb_percent |-> R(300, 1000)] }

MaxRows == 2

RowLists ==
  UNION { [1..n -> HitterRows] : n \in 0..MaxRows }

\* The probable pitchers of a game: main calls analyzeProbable for each side.
Sides == << "home", "away" >>

\* v >= n on JavaScript numbers, v after "?? 0": false for NaN.
JsGe(v, n) ==
  CASE v.t = "null" -> 0 >= n
    [] v.t = "fin" -> v.n >= n * v.d
    [] v.t = "pinf" -> TRUE
    [] OTHER -> FALSE

\* Variant: the projected slot is only tested against null.
EligibleAnySlot(r) ==
  /\ JsGe(r.ab, 1)
  /\ r.slot # NoSlot

\* (r.ops_vs_pitcher?.ab ?? 0) >= 1 && r.projectedBattingOrder != null
\*   && r.projectedBattingOrder <= 5
Eligible(r) ==
  /\ JsGe(r.ab, 1)
  /\ r.slot # NoSlot
  /\ r.slot <= 5

\* (h.season_pa ?? 0) >= 85
SeasonEligible(h) == JsGe(h.season_pa, 85)

\* Array.prototype.sort with the comparator (a, b) => key(b) - key(a) is a
\* stable descending sort: an element's place is the number of elements with
\* a larger key, or an equal key and an earlier position, plus one.
Rank(keys, i) ==
  1 + Cardinality({ j \in 1..Len(keys) :
                      keys[j] > keys[i] \/ (keys[j] = keys[i] /\ j < i) })
StableSortDesc(seq, keys) ==
  [p \in 1..Len(seq) |-> seq[CHOOSE i \in 1..Len(seq) : Rank(keys, i) = p]]

\* Variant: the list is left in the order of vsRows.
Unsorted(hs) == hs

\* .sort((a, b) => ((b.score ?? -1) - (a.score ?? -1)))
SortByScore(hs) == StableSortDesc(hs, [i \in 1..Len(hs) |-> hs[i].score])

\* Number.isFinite(h.wtb_percent) ? h.wtb_percent : -1, in thousandths
\* (wtb_percent has three decimals).
WtbKey(h) ==
  IF IsFinite(h.wtb_percent) THEN (1000 * h.wtb_percent.n) \div h.wtb_percent.d
  ELSE -1000

\* .sort((a, b) => bv - av) on wtb_percent
SortByWtb(hs) == StableSortDesc(hs, [i \in 1..Len(hs) |-> WtbKey(hs[i])])

RECURSIVE FlatMap(_)
FlatMap(results) ==
  IF results = << >> THEN << >>
  ELSE Head(results).hitters \o FlatMap(Tail(results))

\* const out = { ..., hitterCount: sortedHitters.length, hitters: sortedHitters }
OutputOf(sortedHitters) ==
  [hitterCount |-> Len(sortedHitters), hitters |-> sortedHitters, present |-> TRUE]

\* analyzeProbable for the next side: the mapped rows are filtered and
\* sorted, and main pushes the result.
AnalyzeProbable(rows) ==
  /\ ~out.present
  /\ Len(perProbable) < Len(Sides)
  /\ perProbable' = Append(perProbable,
                           [mapped |-> rows,
                            hitters |-> SortByScore(SelectSeq(rows, Eligible))])
  /\ UNCHANGED out
  /\ UNCHANGED << foldVars, scoreVars, gridVars, normVars, runVars, slotVars, sigVars, webVars, srvVars >>

\* main after the loop: allHitters, sortedHitters and the document out.
Combine ==
  /\ ~out.present
  /\ Len(perProbable) = Len(Sides)
  /\ out' = OutputOf(SortByWtb(SelectSeq(FlatMap(perProbable), SeasonEligible)))
  /\ UNCHANGED perProbable
  /\ UNCHANGED << foldVars, scoreVars, gridVars, normVars, runVars, slotVars, sigVars, webVars, srvVars >>

OutInit ==
  /\ SrvIdle
  /\ WebIdle
  /\ SigIdle
  /\ SlotIdle
  /\ FoldIdle
  /\ ScoreIdle
  /\ GridIdle
  /\ NormIdle
  /\ RunIdle
  /\ perProbable = << >>
  /\ out = NoOut

OutNext ==
  \/ \E rows \in RowLists : AnalyzeProbable(rows)
  \/ Combine

SpecOut == OutInit /\ [][OutNext]_vars

\* ------------------------------------------------------------------------
\* battingOrderSlot on its own
\* ------------------------------------------------------------------------
\* Raw battingOrder codes after Number(): missing or empty, non-numeric,
\* "Infinity", and the digit strings "0".."1100" (one to four digits).
MaxCode == 1100
SlotCodes == { Null, NaN, PosInf } \cup { Num(k) : k \in 0..MaxCode }

DecodeSlot(bo) ==
  /\ ~slotCall.present
  /\ slotCall' = [code |-> bo, slot |-> battingOrderSlot(bo), present |-> TRUE]
  /\ UNCHANGED << foldVars, scoreVars, gridVars, normVars, runVars, outVars, sigVars, webVars, srvVars >>

SlotInit ==
  /\ SrvIdle
  /\ WebIdle
  /\ SigIdle
  /\ FoldIdle
  /\ ScoreIdle
  /\ GridIdle
  /\ NormIdle
  /\ RunIdle
  /\ OutIdle
  /\ SlotIdle

SlotNext == \E bo \in SlotCodes : DecodeSlot(bo)

SpecSlot == SlotInit /\ [][SlotNext]_vars

\* ------------------------------------------------------------------------
\* The last-7 dynamic weight and the opportunity share on their own
\* ------------------------------------------------------------------------
\* Last-7-day plate appearances (getRangeOPS: a finite number or null) and
\* OPS (a number, Number() of a string, or null).
MaxPaLast7 == 24
Last7Pas == { Null } \cup { Num(k) : k \in 0..MaxPaLast7 }
Last7Opses == { Null, NaN, PosInf, Zero, R(725, 1000), R(12, 10) }

\* Projected slots: null, the table's slots 1..5 and slots it has no entry for.
MaxSlot == 10
ProjectedSlots == { NoSlot } \cup 1..MaxSlot

\* w_last7_dyn of the map callback for one last-7 line.
Last7Weight(pa, ops) ==
  /\ ~prevSigCall.present
  /\ sigCall' = [fn |-> "last7", pa |-> pa, ops |-> ops,
                 value |-> Last7DynWeight(pa, ops), present |-> TRUE]
  /\ prevSigCall' = sigCall
  /\ UNCHANGED << foldVars, scoreVars, gridVars, normVars, runVars, outVars, slotVars, webVars, srvVars >>

\* projPA, oppNorm and oppShare of the map callback for one slot and site.
Opportunity(slot, isHome) ==
  /\ ~prevSigCall.present
  /\ sigCall' = [fn |-> "opp", slot |-> slot, isHome |-> isHome,
                 projPA |-> projectedPAFor(slot, isHome),
                 value |-> OppShare(Weight("opp"), projectedPAFor(slot, isHome)),
                 present |-> TRUE]
  /\ prevSigCall' = sigCall
  /\ UNCHANGED << foldVars, scoreVars, gridVars, normVars, runVars, outVars, slotVars, webVars, srvVars >>

SigInit ==
  /\ SrvIdle
  /\ WebIdle
  /\ FoldIdle
  /\ ScoreIdle
  /\ GridIdle
  /\ NormIdle
  /\ RunIdle
  /\ OutIdle
  /\ SlotIdle
  /\ SigIdle

SigNext ==
  \/ \E pa \in Last7Pas, ops \in Last7Opses : Last7Weight(pa, ops)
  \/ \E slot \in ProjectedSlots, isHome \in BOOLEAN : Opportunity(slot, isHome)

SpecSig == SigInit /\ [][SigNext]_vars

\* ------------------------------------------------------------------------
\* Web UI: the controls, the loadData calls in flight and what is rendered
\* ------------------------------------------------------------------------
\* Dates are day numbers 1..MaxDay (addDaysISO moves by whole days); at most
\* MaxLoads calls of loadData are made.
MaxDay == 3
MaxLoads == 2
SortKeys == { "score", "wtb_percent" }
SortDirs == { "desc", "asc" }

\* loadData up to its first await: the status line is set and the fetch of
\* api/<dateStr>.json is issued.
loadData(dateStr, sortKey, sortDir) ==
  /\ Len(loads) < MaxLoads
  /\ status' = [text |-> "Loading..."]
  /\ loads' = Append(loads, [dateStr |-> dateStr, sortKey |-> sortKey,
                             sortDir |-> sortDir, stage |-> "fetching"])
  /\ UNCHANGED cards

\* The load button, and Enter in the date input.
LoadClick ==
  /\ loadData(dateInput, sortSelect, sortDirBtn)
  /\ UNCHANGED << dateInput, sortSelect, sortDirBtn >>
  /\ UNCHANGED << foldVars, scoreVars, gridVars, normVars, runVars, outVars, slotVars, sigVars, srvVars >>

\* The date input is changed to day d.
DateChange(d) ==
  /\ d # dateInput
  /\ dateInput' = d
  /\ loadData(d, sortSelect, sortDirBtn)
  /\ UNCHANGED << sortSelect, sortDirBtn >>
  /\ UNCHANGED << foldVars, scoreVars, gridVars, normVars, runVars, outVars, slotVars, sigVars, srvVars >>

\* The previous-day (delta = -1) and next-day (delta = 1) buttons.
StepDay(delta) ==
  /\ dateInput + delta \in 1..MaxDay
  /\ dateInput' = dateInput + delta
  /\ loadData(dateInput + delta, sortSelect, sortDirBtn)
  /\ UNCHANGED << sortSelect, sortDirBtn >>
  /\ UNCHANGED << foldVars, scoreVars, gridVars, normVars, runVars, outVars, slotVars, sigVars, srvVars >>

\* The sort select is changed to key k.
SortChange(k) ==
  /\ k # sortSelect
  /\ sortSelect' = k
  /\ loadData(dateInput, k, sortDirBtn)
  /\ UNCHANGED << dateInput, sortDirBtn >>
  /\ UNCHANGED << foldVars, scoreVars, gridVars, normVars, runVars, outVars, slotVars, sigVars, srvVars >>

\* The sort-direction button.
SortDirToggle ==
  /\ sortDirBtn' = IF sortDirBtn = "asc" THEN "desc" ELSE "asc"
  /\ loadData(dateInput, sortSelect, IF sortDirBtn = "asc" THEN "desc" ELSE "asc")
  /\ UNCHANGED << dateInput, sortSelect >>
  /\ UNCHANGED << foldVars, scoreVars, gridVars, normVars, runVars, outVars, slotVars, sigVars, srvVars >>

\* The fetch of call i settles: a response that is ok, or a rejection or a
\* response that is not ok, which the catch block reports.
FetchSettles(i, ok) ==
  /\ loads[i].stage = "fetching"
  /\ IF ok
     THEN /\ loads' = [loads EXCEPT ![i].stage = "parsing"]
          /\ UNCHANGED status
     ELSE /\ loads' = [loads EXCEPT ![i].stage = "failed"]
          /\ status' = [text |-> "Error"]
  /\ UNCHANGED << dateInput, sortSelect, sortDirBtn, cards >>
  /\ UNCHANGED << foldVars, scoreVars, gridVars, normVars, runVars, outVars, slotVars, sigVars, srvVars >>

\* r.json() of call i settles: renderCards with the call's own sort
\* parameters and the status line with the document's date, or the catch.
JsonSettles(i, ok) ==
  /\ loads[i].stage = "parsing"
  /\ IF ok
     THEN /\ loads' = [loads EXCEPT ![i].stage = "rendered"]
          /\ cards' = [dateStr |-> loads[i].dateStr, sortKey |-> loads[i].sortKey,
                       sortDir |-> loads[i].sortDir, present |-> TRUE]
          /\ status' = [text |-> "Loaded", date |-> loads[i].dateStr]
     ELSE /\ loads' = [loads EXCEPT ![i].stage = "failed"]
          /\ status' = [text |-> "Error"]
          /\ UNCHANGED cards
  /\ UNCHANGED << dateInput, sortSelect, sortDirBtn >>
  /\ UNCHANGED << foldVars, scoreVars, gridVars, normVars, runVars, outVars, slotVars, sigVars, srvVars >>

\* After initControls and the initial load of the module body.
WebInit ==
  /\ SrvIdle
  /\ FoldIdle
  /\ ScoreIdle
  /\ GridIdle
  /\ NormIdle
  /\ RunIdle
  /\ OutIdle
  /\ SlotIdle
  /\ SigIdle
  /\ dateInput \in 1..MaxDay
  /\ sortSelect \in SortKeys
  /\ sortDirBtn \in SortDirs
  /\ loads = << [dateStr |-> dateInput, sortKey |-> sortSelect,
                 sortDir |-> sortDirBtn, stage |-> "fetching"] >>
  /\ cards = NoCards
  /\ status = [text |-> "Loading..."]

WebNext ==
  \/ LoadClick
  \/ \E delta \in { -1, 1 } : StepDay(delta)
  \/ \E d \in 1..MaxDay : DateChange(d)
  \/ \E k \in SortKeys : SortChange(k)
  \/ SortDirToggle
  \/ \E i \in 1..Len(loads), ok \in BOOLEAN : FetchSettles(i, ok)
  \/ \E i \in 1..Len(loads), ok \in BOOLEAN : JsonSettles(i, ok)

SpecWeb == WebInit /\ [][WebNext]_vars

\* ------------------------------------------------------------------------
\* Dev server: one request from the URL to the response
\* ------------------------------------------------------------------------
\* A path is a sequence of segments and a segment a sequence of pieces of
\* text, so that the path string "/srv/app-secret" begins with the string
\* "/srv/app": PathString puts a "/" piece before every segment.
Seg(name) == << name >>
AppSecret == << "app", "-secret" >>

\* process.cwd() of the server, and the files and directories on disk: the
\* site under ROOT and a sibling directory whose name begins with ROOT's.
ROOT == << Seg("srv"), Seg("app") >>
Files ==
  { ROOT \o << Seg("web"), Seg("index.html") >>,
    ROOT \o << Seg("web"), Seg("app.js") >>,
    << Seg("srv"), AppSecret, Seg("key.pem") >>,
    << Seg("srv"), Seg("key.pem") >> }
Directories == UNION { { SubSeq(f, 1, n) : n \in 0..(Len(f) - 1) } : f \in Files }

\* Segments a request URL is made of; "%2e%2e" is ".." percent-encoded.
MaxSegments == 3
UrlSegments ==
  { Seg(".."), Seg("%2e%2e"), Seg("."), Seg("web"), Seg("index.html"), Seg("app"),
    AppSecret, Seg("key.pem") }
RECURSIVE UrlsOfLength(_)
UrlsOfLength(n) ==
  IF n = 0 THEN { << >> }
  ELSE { Append(u, g) : u \in UrlsOfLength(n - 1), g \in UrlSegments }
Urls == UNION { UrlsOfLength(n) : n \in 0..MaxSegments }

\* decodeURIComponent, segment by segment.
decodeURIComponent(u) ==
  [i \in 1..Len(u) |-> IF u[i] = Seg("%2e%2e") THEN Seg("..") ELSE u[i]]

\* path.normalize(path.join(base, pathname)) for an absolute base: "." is
\* dropped and ".." removes the segment before it, if there is one.
RECURSIVE JoinNormalize(_, _)
JoinNormalize(base, pathname) ==
  IF pathname = << >> THEN base
  ELSE IF Head(pathname) = Seg(".") THEN JoinNormalize(base, Tail(pathname))
  ELSE IF Head(pathname) = Seg("..")
       THEN JoinNormalize(IF base = << >> THEN base ELSE SubSeq(base, 1, Len(base) - 1),
                          Tail(pathname))
  ELSE JoinNormalize(Append(base, Head(pathname)), Tail(pathname))

RECURSIVE PathString(_)
PathString(p) ==
  IF p = << >> THEN << >> ELSE << "/" >> \o Head(p) \o PathString(Tail(p))

\* String.prototype.startsWith on the two path strings.
StartsWith(p, prefix) ==
  /\ Len(PathString(prefix)) <= Len(PathString(p))
  /\ SubSeq(PathString(p), 1, Len(PathString(prefix))) = PathString(prefix)

\* The request handler up to fs.stat: "/" is the site's index page; a path
\* that does not start with ROOT is answered 400.
Request(u) ==
  /\ req.pc = "listening"
  /\ LET pathname == IF decodeURIComponent(u) = << >>
                     THEN << Seg("web"), Seg("index.html") >>
                     ELSE decodeURIComponent(u)
         safePath == JoinNormalize(ROOT, pathname)
     IN req' = IF ~StartsWith(safePath, ROOT)
               THEN [pc |-> "sent", url |-> u, safePath |-> safePath,
                     status |-> 400, read |-> << >>]
               ELSE [pc |-> "stat", url |-> u, safePath |-> safePath,
                     status |-> 0, read |-> << >>]
  /\ UNCHANGED << foldVars, scoreVars, gridVars, normVars, runVars, outVars, slotVars, sigVars, webVars >>

\* The callback of fs.stat(safePath).
StatDone ==
  /\ req.pc = "stat"
  /\ req' = IF req.safePath \in Directories
            THEN [req EXCEPT !.pc = "statIndex"]
            ELSE IF req.safePath \in Files
            THEN [req EXCEPT !.pc = "readFile", !.read = req.safePath]
            ELSE [req EXCEPT !.pc = "sent", !.status = 404]
  /\ UNCHANGED << foldVars, scoreVars, gridVars, normVars, runVars, outVars, slotVars, sigVars, webVars >>

\* The callback of fs.stat(idx) for a directory.
StatIndexDone ==
  /\ req.pc = "statIndex"
  /\ req' = IF Append(req.safePath, Seg("index.html")) \in Files
            THEN [req EXCEPT !.pc = "readFile",
                             !.read = Append(req.safePath, Seg("index.html"))]
            ELSE [req EXCEPT !.pc = "sent", !.status = 403]
  /\ UNCHANGED << foldVars, scoreVars, gridVars, normVars, runVars, outVars, slotVars, sigVars, webVars >>

\* serveFile: the callback of fs.readFile, with or without an error.
ReadDone(ok) ==
  /\ req.pc = "readFile"
  /\ req' = [req EXCEPT !.pc = "sent", !.status = IF ok THEN 200 ELSE 404]
  /\ UNCHANGED << foldVars, scoreVars, gridVars, normVars, runVars, outVars, slotVars, sigVars, webVars >>

SrvInit ==
  /\ FoldIdle
  /\ ScoreIdle
  /\ GridIdle
  /\ NormIdle
  /\ RunIdle
  /\ OutIdle
  /\ SlotIdle
  /\ SigIdle
  /\ WebIdle
  /\ req = [pc |-> "listening"]

SrvNext ==
  \/ \E u \in Urls : Request(u)
  \/ StatDone
  \/ StatIndexDone
  \/ \E ok \in BOOLEAN : ReadDone(ok)

SpecSrv == SrvInit /\ [][SrvNext]_vars

\* ------------------------------------------------------------------------
\* Properties
\* ------------------------------------------------------------------------
RECURSIVE SumOver(_, _)
SumOver(f, keys) ==
  IF keys = {} THEN 0
  ELSE LET k == CHOOSE x \in keys : TRUE
       IN f[k] + SumOver(f, keys \ {k})

CompSeq(comp) == [i \in 1..Len(CompKeys) |-> comp[CompKeys[i]]]
RemainingPts == MaxInt(0, row.score - RoundInt(RMul(row.comp.h2h, Num(100))))
PlainShares ==
  ScaledOthers(Others(row.comp), SumFinite(Others(row.comp)), RemainingPts)

\* C1: for every scored signal bundle the entries of score_breakdown sum
\* exactly to score.
BreakdownSumsToScore ==
  pc = "scored" =>
    SumOver(row.score_breakdown, DOMAIN row.score_breakdown) = row.score

\* C1 witness: a scored bundle whose plainly rounded shares missed the
\* remaining-points budget, so that the correction had to act.
RoundingDeltaCorrected ==
  /\ pc = "scored"
  /\ SumInts(PlainShares) # RemainingPts
  /\ SumOver(row.score_breakdown, DOMAIN row.score_breakdown) = row.score

\* C2: score is an integer in 1..100, namely the finite contributions summed,
\* clamped to [0,1], times 100, rounded, floored at 1.
ScoreInRange ==
  pc = "scored" =>
    /\ row.score \in 1..100
    /\ row.score =
         MaxInt(1, RoundInt(RMul(clamp(SumFinite(CompSeq(row.comp)), Zero, One),
                                 Num(100))))

\* C2 witness: a scored bundle with a non-numeric metric whose score was
\* rounded up.
ScoreRoundedUp ==
  /\ pc = "scored"
  /\ bundle.opsVsPitcherHand = NaN
  /\ row.score = FloorInt(RMul(SumFinite(CompSeq(row.comp)), Num(100))) + 1

\* C3: the h2h entry of the breakdown is round(100 * h2h_share), the grid
\* value for the hitter's at-bats and OPS versus the pitcher, whatever the
\* other seven signals are.
H2HEntryPinned ==
  pc = "scored" =>
    row.score_breakdown["h2h"] =
      RoundInt(RMul(h2hWeightFromGrid(IF bundle.ab_vs_pitcher.t = "null" THEN Zero
                                      ELSE bundle.ab_vs_pitcher,
                                      bundle.ops_vs_pitcher),
                    Num(100)))

\* C3 witness: row 4 at the baseline OPS (11.6 points, entry 12) while the
\* other entries had their rounding corrected.
H2HPinnedWhileOthersCorrected ==
  /\ pc = "scored"
  /\ bundle.ab_vs_pitcher = Num(4)
  /\ bundle.ops_vs_pitcher = Null
  /\ row.h2h_share = R(116, 1000)
  /\ row.score_breakdown["h2h"] = 12
  /\ SumInts(PlainShares) # RemainingPts

\* C4 (as claimed): for a fixed row 1..25 the grid share is non-decreasing
\* in OPS.
GridMonotoneInOps ==
  ( /\ lookup.present
    /\ prevLookup.present
    /\ IsFinite(gridAb)
    /\ RLe(Num(1), gridAb)
    /\ RLe(gridAb, Num(25))
    /\ IsFinite(prevLookup.ops)
    /\ IsFinite(lookup.ops)
    /\ RLe(prevLookup.ops, lookup.ops) )
  => RLe(prevLookup.share, lookup.share)

WeightSum(w) ==
  SumFinite(<< w.wtb, w.opp, w.h2h, w.h9_side, w.h9_28, w.ops_hand, w.ops_site,
               w.last7 >>)
\* The rescaling factor as the resolved table shows it, and the last7 weight
\* that factor alone would give.
ScaleSeen == RDiv(row.w.h9_28, Weight("h9_28"))
Last7Rescaled == RMul(Last7DynWeight(bundle.paLast7, bundle.opsLast7), ScaleSeen)

\* C5 (as claimed): the eight resolved weights always sum to exactly 1.
WeightsSumToOne == pc = "scored" => WeightSum(row.w) = One

\* C5 (amended): the eight resolved weights sum to exactly 1 whenever the
\* rescaled last7 weight does not exceed its base 0.10; otherwise last7 is
\* capped at 0.10 and the sum is 1 minus the capped excess, below 1.
WeightsSumToOneUnlessCapped ==
  pc = "scored" =>
    IF RLe(Last7Rescaled, Weight("last7"))
    THEN WeightSum(row.w) = One
    ELSE /\ row.w.last7 = Weight("last7")
         /\ WeightSum(row.w) = RSub(One, RSub(Last7Rescaled, Weight("last7")))
         /\ RLt(WeightSum(row.w), One)

\* C5 witness: the five weights were scaled up by a factor above 1, the cap
\* did not bind, and the eight sum to 1.
WeightsRescaledToOne ==
  /\ pc = "scored"
  /\ RLt(One, ScaleSeen)
  /\ RLt(Last7Rescaled, Weight("last7"))
  /\ WeightSum(row.w) = One

MaxCount(counts) ==
  CHOOSE m \in {counts[s] : s \in DOMAIN counts} :
    \A s \in DOMAIN counts : counts[s] <= m
Tied(counts) == {s \in DOMAIN counts : counts[s] = MaxCount(counts)}
Lowest(S) == CHOOSE k \in S : \A j \in S : k <= j
TieWithoutLatest ==
  /\ projection.present
  /\ Cardinality(Tied(entry.counts)) >= 2
  /\ entry.latestSlot \notin Tied(entry.counts)

\* C6: the projected slot has the maximum count; when the latest
\* observation's slot is among the slots of maximum count it is the projected
\* slot ({3:4, 5:4} with latest 5 gives 5, {2:5, 4:2} gives 2); no
\* observations give null.
ProjectsModeTieToLatest ==
  /\ projection.present =>
       /\ projection.projectedOrder \in Tied(entry.counts)
       /\ entry.latestSlot \in Tied(entry.counts)
            => projection.projectedOrder = entry.latestSlot
  /\ chooseProjectedOrder((3 :> 4) @@ (5 :> 4), 5) = 5
  /\ \A l \in {2, 4} : chooseProjectedOrder((2 :> 5) @@ (4 :> 2), l) = 2
  /\ chooseProjectedOrder(<<>>, NoSlot) = NoSlot

\* C6 witness: several slots tie for the maximum, the latest slot is one of
\* them and not the lowest, and it is the projected slot.
TieBrokenToLatest ==
  /\ projection.present
  /\ Cardinality(Tied(entry.counts)) >= 2
  /\ entry.latestSlot \in Tied(entry.counts)
  /\ entry.latestSlot # Lowest(Tied(entry.counts))
  /\ projection.projectedOrder = entry.latestSlot

LastIndexOf(s) == CHOOSE i \in 1..Len(obs) :
                    obs[i].slot = s /\ \A j \in (i + 1)..Len(obs) : obs[j].slot # s
FirstIndexOf(s) == CHOOSE i \in 1..Len(obs) :
                     obs[i].slot = s /\ \A j \in 1..(i - 1) : obs[j].slot # s
LastEncountered(S) == CHOOSE s \in S : \A u \in S : LastIndexOf(u) <= LastIndexOf(s)
FirstInserted(S) == CHOOSE s \in S : \A u \in S : FirstIndexOf(s) <= FirstIndexOf(u)
Occurrences(s) == Cardinality({i \in 1..Len(obs) : obs[i].slot = s})
MostObserved ==
  {s \in {obs[i].slot : i \in 1..Len(obs)} :
     \A i \in 1..Len(obs) : Occurrences(obs[i].slot) <= Occurrences(s)}

\* C7 (as claimed): when several slots tie for the highest count and the
\* latest slot is not one of them, the projected slot is the tied slot that
\* was encountered last during the fold.
TieResolvesToLastEncountered ==
  TieWithoutLatest =>
    projection.projectedOrder = LastEncountered(Tied(entry.counts))

\* C7 (amended): in that case the projected slot is the lowest-numbered of
\* the slots observed most often, whenever they were folded.
TieResolvesToLowestObserved ==
  TieWithoutLatest => projection.projectedOrder = Lowest(MostObserved)

\* C7 witness: such a tie where the projected slot is the lowest tied slot
\* and not the one folded last.
LowestTiedNotLastEncountered ==
  /\ TieWithoutLatest
  /\ projection.projectedOrder = Lowest(MostObserved)
  /\ projection.projectedOrder # LastEncountered(Tied(entry.counts))

\* C8: when several slots tie for the highest count and none of them is
\* latestSlot, the kept slot is the first tied key in the iteration order of
\* counts, the lowest slot number, a function of counts alone.
TieKeepsFirstKeyInIterationOrder ==
  TieWithoutLatest =>
    /\ projection.projectedOrder = Lowest(Tied(entry.counts))
    /\ \A l \in (DOMAIN entry.counts) \ Tied(entry.counts) :
         chooseProjectedOrder(entry.counts, l) = projection.projectedOrder

\* C8 witness: such a tie where the kept slot is not the tied slot that was
\* recorded first.
KeptSlotNotFirstRecorded ==
  /\ TieWithoutLatest
  /\ projection.projectedOrder = Lowest(Tied(entry.counts))
  /\ FirstInserted(Tied(entry.counts)) # projection.projectedOrder

\* C9: sampleSize is the sum of the per-slot counts and the number of
\* accepted observations; once an observation was accepted latestSlot is a
\* key of counts with a count of at least 1.
SampleSizeCountsObservations ==
  /\ SumOver(entry.counts, DOMAIN entry.counts) = Len(obs)
  /\ entry.present = (Len(obs) >= 1)
  /\ entry.present =>
       /\ entry.latestSlot \in DOMAIN entry.counts
       /\ entry.counts[entry.latestSlot] >= 1
  /\ projection.present =>
       /\ projection.orderSampleSize = Len(obs)
       /\ projection.orderSampleSize = SumOver(entry.counts, DOMAIN entry.counts)

\* C9 witness: a projected hitter with a repeated slot and a latest slot that
\* is not the slot folded last (an older game folded after a newer one).
SampleOfRepeatedSlots ==
  /\ projection.present
  /\ Len(obs) >= 3
  /\ \E s \in DOMAIN entry.counts : entry.counts[s] >= 2
  /\ entry.latestSlot # obs[Len(obs)].slot
  /\ projection.orderSampleSize = Len(obs)

\* C10 (as claimed): each normalizer returns 0.5 for a missing or non-finite
\* input.
NormalizersNeutralOnMissing ==
  (normCall.present /\ ~IsFinite(normCall.input)) =>
    /\ normCall.ops = Half
    /\ normCall.h9 = Half
    /\ normCall.pa = Half
    /\ normCall.wtb = Half

\* The data categories of a pitcher-matchup.
MatchupFetches ==
  { "pitcherSeason", "pitcherHomeAway", "pitcherLast28", "boxscore",
    "homeAwaySplits", "rangeOPS", "seasonStats", "pitcherHand", "vsPitcherOPS",
    "vsHandSplits", "pitcherVsBatterHand", "batSides" }

\* C11 (as claimed): when fetches of a pitcher-matchup's data categories
\* fail, each failure surfaces as an absent signal, no hard failure
\* propagates, and a run that has ended has written the output document.
FetchFailureIsAbsentSignal ==
  (run.pc # "idle" /\ run.failed # {} /\ run.failed \subseteq MatchupFetches) =>
    /\ run.failed \subseteq run.absent
    /\ run.exitCode # 1
    /\ run.pc \in {"done", "exit"} => run.written

\* C12: for every at-bats value and every OPS value, out-of-range and
\* non-finite ones included, h2hWeightFromGrid returns a number share with
\* 0 <= share <= 0.30.
ShareWithinBounds ==
  lookup.present =>
    /\ IsFinite(lookup.share)
    /\ RLe(Zero, lookup.share)
    /\ RLe(lookup.share, R(30, 100))

\* C12 witness: non-finite at-bats and a NaN OPS gave a share inside the
\* bounds, after an OPS above the last bin gave one too.
ShareOfNonFiniteInputs ==
  /\ lookup.present
  /\ prevLookup.present
  /\ gridAb = PosInf
  /\ prevLookup.ops = R(210, 100)
  /\ lookup.ops = NaN
  /\ RLt(Zero, lookup.share)
  /\ RLt(lookup.share, R(30, 100))

\* The row and the OPS the lookup is claimed to be made at.
ClaimedRow ==
  IF ~IsFinite(gridAb) \/ RLt(gridAb, Num(1)) THEN 1
  ELSE IF RLt(Num(25), gridAb) THEN 25
  ELSE RoundInt(gridAb)
ClaimedOps(ops) ==
  IF ~IsFinite(ops) THEN R(72, 100)
  ELSE IF RLt(ops, R(20, 100)) THEN R(20, 100)
  ELSE IF RLt(R(200, 100), ops) THEN R(200, 100)
  ELSE ops
\* The linear interpolation between the cells of two bracketing bin edges.
Interpolated(cells, ops) ==
  LET k == CHOOSE j \in 1..(Len(H2H_OPS_BINS) - 1) :
             /\ H2H_OPS_BINS[j] * ops.d <= 1000 * ops.n
             /\ 1000 * ops.n <= H2H_OPS_BINS[j + 1] * ops.d
             /\ \A i \in (j + 1)..(Len(H2H_OPS_BINS) - 1) :
                  ~(H2H_OPS_BINS[i] * ops.d <= 1000 * ops.n)
  IN R(cells[k] * (H2H_OPS_BINS[k + 1] - H2H_OPS_BINS[k]) * ops.d
         + (1000 * ops.n - H2H_OPS_BINS[k] * ops.d) * (cells[k + 1] - cells[k]),
       100 * (H2H_OPS_BINS[k + 1] - H2H_OPS_BINS[k]) * ops.d)

\* C13: out-of-domain inputs are clamped: row 1 for at-bats below 1 or
\* missing/non-finite, row 25 above 25, OPS 0.20 below 0.20, OPS 2.00 above
\* 2.00, OPS 0.72 when missing or non-finite; the share is the linear
\* interpolation between the two bracketing cells of the row, over 100.
OutOfDomainClamped ==
  lookup.present =>
    lookup.share = Interpolated(H2H_GRID_POINTS[ClaimedRow], ClaimedOps(lookup.ops))

\* C13 witness: at-bats above 25, an OPS below the first bin, then an OPS
\* strictly between two bin edges.
ClampedThenInterpolated ==
  /\ lookup.present
  /\ prevLookup.present
  /\ gridAb = Num(30)
  /\ prevLookup.ops = R(10, 100)
  /\ prevLookup.share = R(1, 100)
  /\ lookup.ops = R(75, 100)
  /\ lookup.share = R(10, 100)

\* C14: for every signal bundle the resolved wtb weight is exactly 0.30 and
\* the base opp weight exactly 0.05 (the opp contribution ramps between half
\* of it and all of it), whatever factor rescales the other five weights.
FixedWeightsAnchored ==
  pc = "scored" =>
    /\ row.w.wtb = R(30, 100)
    /\ row.w.opp = R(5, 100)
    /\ RLe(R(25, 1000), row.comp.opp)
    /\ RLe(row.comp.opp, R(5, 100))

\* C14 witness: the grid share is at its ceiling 0.30, the other weights
\* were rescaled by a factor other than 1, and wtb and opp kept their values.
AnchoredUnderRescaling ==
  /\ pc = "scored"
  /\ row.w.h2h = R(30, 100)
  /\ ScaleSeen # One
  /\ row.w.ops_hand # R(15, 100)
  /\ row.w.wtb = R(30, 100)
  /\ row.w.opp = R(5, 100)

\* C15: for every signal bundle the resolved last7 weight is at most its
\* base value 0.10, also when the rescaling factor is greater than 1.
Last7NeverAboveBase ==
  pc = "scored" =>
    /\ IsFinite(row.w.last7)
    /\ RLe(row.w.last7, R(10, 100))

\* C15 witness: the factor is above 1, the rescaled last7 weight would
\* exceed 0.10, and the resolved one is 0.10.
Last7CapBinds ==
  /\ pc = "scored"
  /\ RLt(One, ScaleSeen)
  /\ RLt(R(10, 100), Last7Rescaled)
  /\ row.w.last7 = R(10, 100)

\* The claimed condition on a listed hitter: at-bats versus the pitcher of at
\* least 1 and a projected slot in 1..5.
ListedHitterOk(h) ==
  /\ h.ab.t = "fin"
  /\ h.ab.n >= h.ab.d
  /\ h.slot \in 1..5
AllOk(hs) == \A i \in 1..Len(hs) : ListedHitterOk(hs[i])

\* C16: a hitter is in a pitcher-matchup's hitters list only with at-bats
\* versus the pitcher >= 1 and a projected slot in 1..5; in the combined
\* list only if, in addition, season plate appearances >= 85; hitterCount
\* is the length of the document's hitters list.
OnlyEligibleHittersListed ==
  /\ \A k \in 1..Len(perProbable) : AllOk(perProbable[k].hitters)
  /\ out.present =>
       /\ AllOk(out.hitters)
       /\ \A i \in 1..Len(out.hitters) :
            /\ out.hitters[i].season_pa.t = "fin"
            /\ out.hitters[i].season_pa.n >= 85 * out.hitters[i].season_pa.d
       /\ out.hitterCount = Len(out.hitters)

\* C16 witness: a document with a hitter at exactly 85 plate appearances,
\* built from lists that dropped a mapped row and from which the season
\* filter dropped a hitter.
FiltersDroppedRows ==
  /\ out.present
  /\ out.hitterCount >= 1
  /\ \E i \in 1..Len(out.hitters) : out.hitters[i].season_pa = Num(85)
  /\ \E k \in 1..Len(perProbable) :
       Len(perProbable[k].hitters) < Len(perProbable[k].mapped)
  /\ out.hitterCount < Len(FlatMap(perProbable))

ScoreOrdered(hs) ==
  \A i \in 1..Len(hs) : \A j \in 1..Len(hs) : i < j => hs[i].score >= hs[j].score

\* C17 (as claimed): every hitters list, per pitcher and combined, is in
\* non-increasing order of score.
EveryListRankedByScore ==
  /\ \A k \in 1..Len(perProbable) : ScoreOrdered(perProbable[k].hitters)
  /\ out.present => ScoreOrdered(out.hitters)

\* C17 (amended): every per-pitcher hitters list is in non-increasing order
\* of score; the combined list of the output document is in non-increasing
\* order of wtb_percent, a missing wtb_percent counting as -1.
ListsRankedByScoreThenWtb ==
  /\ \A k \in 1..Len(perProbable) : ScoreOrdered(perProbable[k].hitters)
  /\ out.present =>
       \A i \in 1..Len(out.hitters) : \A j \in 1..Len(out.hitters) :
         i < j => WtbKey(out.hitters[i]) >= WtbKey(out.hitters[j])

\* C17 witness: a per-pitcher list that had to be reordered by score, and a
\* combined list in wtb_percent order that is not in score order.
CombinedListNotInScoreOrder ==
  /\ out.present
  /\ \E k \in 1..Len(perProbable) :
       /\ Len(perProbable[k].hitters) = 2
       /\ perProbable[k].hitters # perProbable[k].mapped
       /\ ScoreOrdered(perProbable[k].hitters)
  /\ ~ScoreOrdered(out.hitters)

BothCallsFinite ==
  /\ normCall.present
  /\ prevCall.present
  /\ IsFinite(prevCall.input)
  /\ IsFinite(normCall.input)
  /\ RLe(prevCall.input, normCall.input)

\* C18: normWTB is 0 up to 0.190, 0.5 at 0.223, 1 from 0.272 on (so 1 at
\* 0.30), linear on [0.190, 0.223] and on [0.223, 0.272], hence within [0,1]
\* and non-decreasing for finite inputs.
NormWTBPiecewiseLinear ==
  /\ (normCall.present /\ IsFinite(normCall.input)) =>
       /\ RLe(Zero, normCall.wtb) /\ RLe(normCall.wtb, One)
       /\ RLe(normCall.input, R(190, 1000)) => normCall.wtb = Zero
       /\ RLe(R(272, 1000), normCall.input) => normCall.wtb = One
       /\ normCall.input = R(223, 1000) => normCall.wtb = Half
       /\ normCall.input = R(30, 100) => normCall.wtb = One
       /\ (RLe(R(190, 1000), normCall.input) /\ RLe(normCall.input, R(223, 1000))) =>
            normCall.wtb.n * 66 * normCall.input.d
              = (1000 * normCall.input.n - 190 * normCall.input.d) * normCall.wtb.d
       /\ (RLe(R(223, 1000), normCall.input) /\ RLe(normCall.input, R(272, 1000))) =>
            (2 * normCall.wtb.n - normCall.wtb.d) * 49 * normCall.input.d
              = (1000 * normCall.input.n - 223 * normCall.input.d) * normCall.wtb.d
  /\ BothCallsFinite => RLe(prevCall.wtb, normCall.wtb)

\* C18 witness: a call inside the lower segment followed by a call inside
\* the upper segment, with values strictly between 0, 0.5 and 1.
NormWTBBothSegments ==
  /\ BothCallsFinite
  /\ prevCall.input = R(200, 1000)
  /\ normCall.input = R(250, 1000)
  /\ RLt(Zero, prevCall.wtb)
  /\ RLt(prevCall.wtb, Half)
  /\ RLt(Half, normCall.wtb)
  /\ RLt(normCall.wtb, One)

\* C19: wtbPAConfidence is within [0.65, 1]: 0.65 up to 150 PA and for an
\* unknown or non-finite PA, 1 from 500 PA on, non-decreasing, and at 325 PA
\* strictly between the midpoint 0.825 and 1.
ConfidenceRamp ==
  /\ normCall.present =>
       /\ RLe(R(65, 100), normCall.conf) /\ RLe(normCall.conf, One)
       /\ ~IsFinite(normCall.input) => normCall.conf = R(65, 100)
       /\ (IsFinite(normCall.input) /\ RLe(normCall.input, Num(150))) =>
            normCall.conf = R(65, 100)
       /\ (IsFinite(normCall.input) /\ RLe(Num(500), normCall.input)) =>
            normCall.conf = One
       /\ normCall.input = Num(325) =>
            RLt(R(825, 1000), normCall.conf) /\ RLt(normCall.conf, One)
  /\ BothCallsFinite => RLe(prevCall.conf, normCall.conf)

\* C19 witness: the confidence at 325 PA, above the midpoint, after a lower
\* confidence at 175 PA that is above the floor.
ConfidenceAboveMidpoint ==
  /\ BothCallsFinite
  /\ prevCall.input = Num(175)
  /\ normCall.input = Num(325)
  /\ RLt(R(65, 100), prevCall.conf)
  /\ RLt(prevCall.conf, normCall.conf)
  /\ RLt(R(825, 1000), normCall.conf)

\* C20: battingOrderSlot returns null or a slot in 1..9 for every raw code;
\* the hundreds digit for a three-digit code (301 gives 3); null for an
\* empty, non-numeric or zero-hundreds code.
SlotIsNullOrOneToNine ==
  slotCall.present =>
    /\ slotCall.slot = NoSlot \/ slotCall.slot \in 1..9
    /\ (IsFinite(slotCall.code) /\ slotCall.code.n \in 100..999) =>
         slotCall.slot = slotCall.code.n \div 100
    /\ slotCall.code = Num(301) => slotCall.slot = 3
    /\ (~IsFinite(slotCall.code) \/ slotCall.code.n \in 0..99) =>
         slotCall.slot = NoSlot

\* The seven non-h2h raw contributions of the scored row, a non-finite one
\* counted as 0, and their sum.
RawOther(i) ==
  IF IsFinite(row.comp[OtherKeys[i]]) THEN row.comp[OtherKeys[i]] ELSE Zero

DenomOfRow == SumFinite([i \in 1..Len(OtherKeys) |-> row.comp[OtherKeys[i]]])

RemainingOfRow ==
  IF row.score - RoundInt(RMul(row.comp.h2h, Num(100))) > 0
  THEN row.score - RoundInt(RMul(row.comp.h2h, Num(100)))
  ELSE 0

ExactShare(i) == RMul(Num(RemainingOfRow), RDiv(RawOther(i), DenomOfRow))

NearestShare(i) == RoundInt(ExactShare(i))

FlooredShare(i) == FloorInt(ExactShare(i))

\* The first signal, in key order, whose raw contribution is the largest.
LargestOther ==
  CHOOSE i \in 1..Len(OtherKeys) :
    /\ \A j \in 1..Len(OtherKeys) : RLe(RawOther(j), RawOther(i))
    /\ \A j \in 1..(i - 1) : RLt(RawOther(j), RawOther(i))

NearestDrift ==
  RemainingOfRow - SumInts([i \in 1..Len(OtherKeys) |-> NearestShare(i)])

FlooredDrift ==
  RemainingOfRow - SumInts([i \in 1..Len(OtherKeys) |-> FlooredShare(i)])

\* C21 as stated: each non-h2h share is the floor of its proportional part
\* of the remaining points, the drift going to the largest raw contribution.
BreakdownSharesRoundedDown ==
  (pc = "scored" /\ RLt(Zero, DenomOfRow)) =>
    \A i \in 1..Len(OtherKeys) :
      row.score_breakdown[OtherKeys[i]] =
        IF i = LargestOther
        THEN MaxInt(0, FlooredShare(i) + FlooredDrift)
        ELSE FlooredShare(i)

\* C21: the remaining points (score minus h2h points, floored at 0) are
\* split over the seven non-h2h signals in proportion to their raw
\* contributions, each share rounded to the nearest integer (halves up) and
\* non-negative; the drift, of either sign, is applied to the first signal
\* with the largest raw contribution, whose points stay non-negative.
BreakdownSharesRoundedToNearest ==
  (pc = "scored" /\ RLt(Zero, DenomOfRow)) =>
    \A i \in 1..Len(OtherKeys) :
      /\ row.score_breakdown[OtherKeys[i]] >= 0
      /\ row.score_breakdown[OtherKeys[i]] =
           IF i = LargestOther
           THEN MaxInt(0, NearestShare(i) + NearestDrift)
           ELSE NearestShare(i)

\* C21 witness: a scored row whose rounded shares exceed the remaining
\* points, so that the drift is negative, which floored shares never give.
RoundedSharesOvershoot ==
  /\ pc = "scored"
  /\ RLt(Zero, DenomOfRow)
  /\ NearestDrift < 0
  /\ \E i \in 1..Len(OtherKeys) : NearestShare(i) > FlooredShare(i)
  /\ row.score_breakdown[OtherKeys[LargestOther]] =
       NearestShare(LargestOther) + NearestDrift

MaxObsDate == CHOOSE d \in { obs[i].date : i \in 1..Len(obs) } :
                \A i \in 1..Len(obs) : obs[i].date <= d

LastOfMaxDate == CHOOSE i \in 1..Len(obs) :
                   /\ obs[i].date = MaxObsDate
                   /\ \A j \in (i + 1)..Len(obs) : obs[j].date < MaxObsDate

\* C22: after any sequence of accepted observations, in any order of game
\* dates, latestGameDate is the maximum game date among them and latestSlot
\* is the slot of the last-folded observation with that date.
LatestIsLastOfMaxDate ==
  Len(obs) >= 1 =>
    /\ entry.latestGameDate = MaxObsDate
    /\ entry.latestSlot = obs[LastOfMaxDate].slot

\* C22 witness: two observations of the newest date with different slots,
\* then an older game folded last: the latest slot is the second one's.
LatestSurvivesOlderGame ==
  /\ Len(obs) >= 3
  /\ obs[1].date = MaxObsDate
  /\ obs[2].date = MaxObsDate
  /\ obs[1].slot # obs[2].slot
  /\ obs[Len(obs)].date < MaxObsDate
  /\ LastOfMaxDate = 2
  /\ entry.latestSlot = obs[2].slot
  /\ entry.latestSlot # obs[Len(obs)].slot

IsLast7(c) == c.present /\ c.fn = "last7"

Last7Ramps(c) == c.pa.t = "fin" /\ c.pa.n >= 3 /\ IsFinite(c.ops)

\* The ramp fraction the weight shows, (weight / 0.10 - 0.5) / 0.5, and the
\* linear fraction clamp((pa - 3) / 17, 0, 1) of a ramping call.
RampSeen(c) == RSub(RMul(Num(20), c.value), One)

LinearFraction(c) == IF c.pa.n >= 20 THEN One ELSE R(c.pa.n - 3, 17)

\* C23: with last-7 PA >= 3 and a finite OPS the weight is
\* 0.10 * (0.5 + 0.5 * sqrt(clamp((pa - 3) / 17, 0, 1))) (the root to two
\* decimals): 0.05 at pa = 3, 0.10 for pa >= 20, non-decreasing in between;
\* in every other case the weight is exactly 0.05.
Last7WeightRamp ==
  /\ IsLast7(sigCall) =>
       IF Last7Ramps(sigCall)
       THEN /\ RLe(Zero, RampSeen(sigCall))
            /\ RLe(RMul(RampSeen(sigCall), RampSeen(sigCall)), LinearFraction(sigCall))
            /\ RLt(LinearFraction(sigCall),
                   RMul(RAdd(RampSeen(sigCall), R(1, 100)),
                        RAdd(RampSeen(sigCall), R(1, 100))))
            /\ sigCall.pa.n = 3 => sigCall.value = R(5, 100)
            /\ sigCall.pa.n >= 20 => sigCall.value = R(10, 100)
            /\ RLe(R(5, 100), sigCall.value) /\ RLe(sigCall.value, R(10, 100))
       ELSE sigCall.value = R(5, 100)
  /\ (IsLast7(sigCall) /\ IsLast7(prevSigCall)
        /\ Last7Ramps(sigCall) /\ Last7Ramps(prevSigCall)
        /\ prevSigCall.pa.n <= sigCall.pa.n) =>
       RLe(prevSigCall.value, sigCall.value)

\* C23 witness: a weight strictly inside the ramp at 10 PA, after the
\* pinned weight of a 10-PA line whose OPS is not a number.
Last7MidRamp ==
  /\ IsLast7(sigCall)
  /\ IsLast7(prevSigCall)
  /\ prevSigCall.pa = Num(10)
  /\ prevSigCall.ops = NaN
  /\ prevSigCall.value = R(5, 100)
  /\ sigCall.pa = Num(10)
  /\ Last7Ramps(sigCall)
  /\ RLt(R(75, 1000), sigCall.value)
  /\ RLt(sigCall.value, R(10, 100))

IsOpp(c) == c.present /\ c.fn = "opp"

\* C24: for every projected slot and either site the opportunity
\* contribution is within [0.025, 0.05]: 0.025 for home slot 5, 0.05 for away
\* slot 1, linear in the table's expected PA in between, and 0.0375 when the
\* table has no entry for the slot.
OpportunityAtLeastHalf ==
  /\ IsOpp(sigCall) =>
       /\ RLe(R(25, 1000), sigCall.value) /\ RLe(sigCall.value, R(5, 100))
       /\ (sigCall.slot = 5 /\ sigCall.isHome) => sigCall.value = R(25, 1000)
       /\ (sigCall.slot = 1 /\ ~sigCall.isHome) => sigCall.value = R(5, 100)
       /\ sigCall.slot \notin 1..5 => sigCall.value = R(375, 10000)
       /\ sigCall.slot \in 1..5 =>
            /\ sigCall.projPA =
                 PROJECTED_PA_TABLE[IF sigCall.isHome THEN "home" ELSE "away"][sigCall.slot]
            /\ RMul(RSub(sigCall.value, R(25, 1000)), R(59, 100))
                 = RMul(R(25, 1000), RSub(sigCall.projPA, R(410, 100)))
  /\ (IsOpp(sigCall) /\ IsOpp(prevSigCall)
        /\ IsFinite(sigCall.projPA) /\ IsFinite(prevSigCall.projPA)
        /\ RLe(prevSigCall.projPA, sigCall.projPA)) =>
       RLe(prevSigCall.value, sigCall.value)

\* C24 witness: a slot without a table entry at the neutral 0.0375, after a
\* table slot strictly between the two ends.
OpportunityNeutralForSlotSeven ==
  /\ IsOpp(sigCall)
  /\ IsOpp(prevSigCall)
  /\ prevSigCall.slot = 3
  /\ prevSigCall.isHome
  /\ RLt(R(25, 1000), prevSigCall.value)
  /\ RLt(prevSigCall.value, R(5, 100))
  /\ sigCall.slot = 7
  /\ sigCall.projPA = Null
  /\ sigCall.value = R(375, 10000)

AllLoadsSettled ==
  /\ Len(loads) >= 1
  /\ \A i \in 1..Len(loads) : loads[i].stage \in { "rendered", "failed" }

\* C25: once every fetch has completed, the rendered cards and the status
\* line are those of the most recently triggered load (here: whenever that
\* load itself succeeded), never of an earlier one.
LatestLoadIsShown ==
  (AllLoadsSettled /\ loads[Len(loads)].stage = "rendered") =>
    /\ cards.present
    /\ cards.dateStr = loads[Len(loads)].dateStr
    /\ cards.sortKey = loads[Len(loads)].sortKey
    /\ cards.sortDir = loads[Len(loads)].sortDir
    /\ status = [text |-> "Loaded", date |-> loads[Len(loads)].dateStr]

InsideRoot(p) ==
  /\ Len(ROOT) <= Len(p)
  /\ \A i \in 1..Len(ROOT) : p[i] = ROOT[i]

\* C26: a file is read and served only if its normalized location is ROOT
\* or inside the ROOT tree; a request whose normalized path is outside ROOT,
\* a sibling directory whose name begins with ROOT's name included, is
\* answered 400 and no file outside ROOT is read.
NoReadOutsideRoot ==
  req.pc \in { "stat", "statIndex", "readFile", "sent" } =>
    /\ req.read # << >> => InsideRoot(req.read)
    /\ ~InsideRoot(req.safePath) =>
         /\ req.pc = "sent"
         /\ req.status = 400
         /\ req.read = << >>

====
